---- MODULE Spec2Model ----
(***************************************************************************)
(* annofilter: streaming UTF-8 annotator.  The model follows the C source  *)
(* function by function.  Bytes are the integers 0..255, the working       *)
(* buffer is the sequence of its filled bytes (C index i is element i+1),  *)
(* and standard output is a sequence of items: a raw byte, an escaped      *)
(* byte <hh>, a markup string, or the one-character whitespace marker.     *)
(* Two history variables record what the program does not keep: base, the  *)
(* position in the concatenated input of buffer[0], so that every output   *)
(* item carries the input position p it was written for, and reads, the    *)
(* number of non-empty reads of the open source.                           *)
(***************************************************************************)
EXTENDS Integers, Sequences, FiniteSets, TLC

\* ---------------------------------------------------------------- bounds
MaxLen == 4        \* longest single source drawn from one alphabet
MaxRun == 5        \* longest run of 0x01 bytes
MaxPart == 2       \* longest source when two sources are given
MaxLive == 3       \* longest source of the runs checked for termination
MaxMatchLen == 5   \* longest single input of match
MaxPat == 2        \* longest pattern of match
MaxColumns == 4    \* largest maximum line length (-m) of match
MaxStatsLen == 5   \* longest single input of textstats

\* ------------------------------------------------------- program constants
buffer_len == 65536

OK == "OK"
CONTROL == "CONTROL"
ENCODING == "ENCODING"
OVERLONG == "OVERLONG"
HIGH_CONTROL == "HIGH_CONTROL"
TRAILING_WHITESPACE == "TRAILING_WHITESPACE"

condition == {OK, CONTROL, ENCODING, OVERLONG, HIGH_CONTROL, TRAILING_WHITESPACE}

\* the escape strings, as byte values: ESC [ 0 m, ESC [ 4 1 ; 9 7 m, ESC [ 4 3 m
markup ==
  [c \in condition |->
     IF c = OK THEN <<27, 91, 48, 109>>
     ELSE IF c = TRAILING_WHITESPACE THEN <<27, 91, 52, 51, 109>>
     ELSE <<27, 91, 52, 49, 59, 57, 55, 109>>]

\* ------------------------------------------------------------ bit helpers
RECURSIVE BitAnd(_, _)
BitAnd(a, b) ==
  IF a = 0 \/ b = 0 THEN 0
  ELSE (a % 2) * (b % 2) + 2 * BitAnd(a \div 2, b \div 2)

RECURSIVE BitOr(_, _)
BitOr(a, b) ==
  IF a = 0 THEN b
  ELSE IF b = 0 THEN a
  ELSE (IF a % 2 = 1 \/ b % 2 = 1 THEN 1 ELSE 0) + 2 * BitOr(a \div 2, b \div 2)

Shl(a, n) == a * (2 ^ n)

\* ------------------------------------------------------------ output items
RawItem(b, p) == [k |-> "raw", b |-> b, c |-> OK, p |-> p]
EscItem(b, cond, p) == [k |-> "esc", b |-> b, c |-> cond, p |-> p]
MarkupItem(cond, p) == [k |-> "markup", b |-> 0, c |-> cond, p |-> p]
MarkerItem(cond, p) == [k |-> "marker", b |-> 32, c |-> cond, p |-> p]

\* printf("%02x"): two lower-case hexadecimal digits
HexDigit(d) == IF d < 10 THEN 48 + d ELSE 87 + d

ItemBytes(it) ==
  IF it.k = "raw" THEN <<it.b>>
  ELSE IF it.k = "esc"
    THEN <<60, HexDigit(BitAnd(it.b, 255) \div 16), HexDigit(BitAnd(it.b, 255) % 16), 62>>
  ELSE IF it.k = "markup" THEN markup[it.c]
  ELSE <<32>>

RECURSIVE OutBytes(_)
OutBytes(o) == IF o = <<>> THEN <<>> ELSE ItemBytes(Head(o)) \o OutBytes(Tail(o))

\* ------------------------------------------------------------------ state
VARIABLES
  srcs,                  \* argv: the byte contents of the sources, in order
  index,                 \* run(): number of sources opened so far
  offset,                \* file offset of the open source
  buffer,                \* buffer[0 .. buffer_pos)
  buffer_out,
  buffer_pos,
  last_byte_nl,
  last_byte_cr,
  last_byte_whitespace,
  current_condition,
  out,                   \* stdout
  base,                  \* history: input position of buffer[0]
  reads,                 \* history: non-empty reads of the open source
  pc,                    \* "run", "run_fd", "exit" (main returned) or
                         \* "errno_printf" (exit(errno) was called)
  status,                \* exit status, -1 while running
  \* match
  version,               \* which of the two sources of match was built
  match_param,
  max_columns,           \* buffer_len of match
  report_count,          \* option -c
  use_color,             \* option -r
  state_binary,
  match_count,
  line_match_count,
  \* textstats
  ulen,
  umin,
  umax,
  u_acc,                 \* the global u
  utf8_missing_continuation_count,
  utf8_orphan_continuation_count,
  utf8_overlong_count,
  utf8_upper_control_count,
  utf8_illegal_count,
  line_count,
  windows_line_count,
  trailing_whitespace_count,
  null_char_count,
  control_count,
  upper_control_count,
  upper_printable_count,
  latin1_finnish_count

match_vars == <<version, match_param, max_columns, report_count, use_color,
                state_binary, match_count, line_match_count>>

stats_vars == <<ulen, umin, umax, u_acc, utf8_missing_continuation_count,
                utf8_orphan_continuation_count, utf8_overlong_count,
                utf8_upper_control_count, utf8_illegal_count, line_count,
                windows_line_count, trailing_whitespace_count, null_char_count,
                control_count, upper_control_count, upper_printable_count,
                latin1_finnish_count>>

vars == <<srcs, index, offset, buffer, buffer_out, buffer_pos, last_byte_nl,
          last_byte_cr, last_byte_whitespace, current_condition, out, base, reads,
          pc, status, match_vars, stats_vars>>

\* the scanner and emitter globals, as one record the functions transform
Globals ==
  [buffer |-> buffer, buffer_out |-> buffer_out, buffer_pos |-> buffer_pos,
   last_byte_nl |-> last_byte_nl, last_byte_cr |-> last_byte_cr,
   last_byte_whitespace |-> last_byte_whitespace,
   current_condition |-> current_condition, out |-> out, base |-> base]

InitGlobals ==
  [buffer |-> <<>>, buffer_out |-> 0, buffer_pos |-> 0,
   last_byte_nl |-> FALSE, last_byte_cr |-> FALSE,
   last_byte_whitespace |-> FALSE,
   current_condition |-> OK, out |-> <<>>, base |-> 0]

\* ---------------------------------------------------------------- emitter
\* faulty variant: the active classification survives a flush
flush_output_keep(s, idx) ==
  IF idx > s.buffer_out
    THEN [s EXCEPT
            !.out = (IF s.current_condition # OK
                       THEN Append(s.out, MarkupItem(OK, s.base + s.buffer_out))
                       ELSE s.out)
                    \o [j \in 1..(idx - s.buffer_out) |->
                          RawItem(s.buffer[s.buffer_out + j],
                                  s.base + s.buffer_out + j - 1)],
            !.buffer_out = idx]
    ELSE s

flush_output(s, idx) ==
  IF idx > s.buffer_out
    THEN [s EXCEPT
            !.out = (IF s.current_condition # OK
                       THEN Append(s.out, MarkupItem(OK, s.base + s.buffer_out))
                       ELSE s.out)
                    \o [j \in 1..(idx - s.buffer_out) |->
                          RawItem(s.buffer[s.buffer_out + j],
                                  s.base + s.buffer_out + j - 1)],
            !.current_condition = OK,
            !.buffer_out = idx]
    ELSE s

\* faulty variant: the markup is written without comparing with the active one
bad_preface_always(s, cond, idx) ==
  LET t == flush_output(s, idx) IN
  [t EXCEPT
     !.out = Append(t.out, MarkupItem(cond, t.base + idx)),
     !.current_condition = cond]

bad_preface(s, cond, idx) ==
  LET t == flush_output(s, idx) IN
  [t EXCEPT
     !.out = IF cond # t.current_condition
               THEN Append(t.out, MarkupItem(cond, t.base + idx)) ELSE t.out,
     !.current_condition = cond]

bad_byte(s, cond, idx) ==
  LET t == bad_preface(s, cond, idx) IN
  [t EXCEPT
     !.out = Append(t.out, EscItem(BitAnd(t.buffer[idx + 1], 255), cond,
                                   t.base + idx)),
     !.buffer_out = idx + 1]

RECURSIVE bad_bytes_loop(_, _, _, _, _)
bad_bytes_loop(s, i, count, cond, idx) ==
  IF i < count
    THEN bad_bytes_loop(bad_byte(s, cond, idx + i), i + 1, count, cond, idx)
    ELSE s

\* faulty variant: the last byte of the sequence is not written
bad_bytes_short(s, count, cond, idx) ==
  bad_bytes_loop(s, 0, count - 1, cond, idx)

bad_bytes(s, count, cond, idx) == bad_bytes_loop(s, 0, count, cond, idx)

bad_marker(s, cond, idx) ==
  LET t == bad_preface(s, cond, idx) IN
  [t EXCEPT !.out = Append(t.out, MarkerItem(cond, t.base + idx))]

\* faulty variant: the memmove is missing, the cursors are still renumbered
early_out_nomove(s, idx) ==
  LET t == flush_output(s, idx) IN
  [t EXCEPT
     !.buffer = SubSeq(t.buffer, 1, t.buffer_pos - idx),
     !.buffer_pos = t.buffer_pos - idx,
     !.buffer_out = 0,
     !.base = t.base + idx]

early_out(s, idx) ==
  LET t == flush_output(s, idx) IN
  [t EXCEPT
     !.buffer = SubSeq(t.buffer, idx + 1, t.buffer_pos),
     !.buffer_pos = t.buffer_pos - idx,
     !.buffer_out = 0,
     !.base = t.base + idx]

\* ---------------------------------------------------------------- scanner
\* the end of one loop iteration of consume(): the residual flags
residual(s, ch, i) ==
  LET t1 == [s EXCEPT !.last_byte_nl = (ch = 10)]
      t2 == IF ch = 10 /\ t1.last_byte_whitespace
              THEN bad_marker(t1, TRAILING_WHITESPACE, i) ELSE t1
  IN [t2 EXCEPT
        !.last_byte_cr = (ch = 13),
        !.last_byte_whitespace = IF ch # 13 THEN (ch = 9 \/ ch = 32) ELSE @]

Continue(s) == [s |-> s, ret |-> FALSE]
Return(s) == [s |-> s, ret |-> TRUE]

\* one iteration of the for loop of consume(), at loop index i
consume_iter(s, i) ==
  LET ch == BitAnd(s.buffer[i + 1], 255)
      ch1 == BitAnd(s.buffer[i + 2], 255)
      ch2 == BitAnd(s.buffer[i + 3], 255)
      ch3 == BitAnd(s.buffer[i + 4], 255)
  IN
  IF BitAnd(ch, 128) = 0 THEN                               \* leading 1
    Continue(residual(IF ch < 32 /\ ch # 10 /\ ch # 9
                        THEN bad_byte(s, CONTROL, i) ELSE s, ch, i))
  ELSE IF BitAnd(ch, 64) = 0 THEN                           \* continuation
    Continue(residual(bad_byte(s, ENCODING, i), ch, i))
  ELSE IF BitAnd(ch, 32) = 0 THEN                           \* leading 2
    IF i + 1 >= s.buffer_pos THEN Return(early_out(s, i))
    ELSE IF BitAnd(ch1, 192) # 128 THEN Continue(bad_byte(s, ENCODING, i))
    ELSE LET u == BitOr(Shl(BitAnd(ch, 31), 6), BitAnd(ch1, 63)) IN
         Continue(residual(IF u < 128 THEN bad_bytes(s, 2, OVERLONG, i)
                           ELSE IF u < 160 THEN bad_bytes(s, 2, HIGH_CONTROL, i)
                           ELSE s, ch, i))
  ELSE IF BitAnd(ch, 16) = 0 THEN                           \* leading 3
    IF i + 2 >= s.buffer_pos THEN Return(early_out(s, i))
    ELSE IF BitAnd(ch1, 192) # 128 \/ BitAnd(ch2, 192) # 128
      THEN Continue(bad_byte(s, ENCODING, i))
    ELSE LET u == BitOr(BitOr(Shl(BitAnd(ch, 15), 12), Shl(BitAnd(ch1, 63), 6)),
                        BitAnd(ch2, 63)) IN
         Continue(residual(IF u < 2048 THEN bad_bytes(s, 3, OVERLONG, i)
                           ELSE s, ch, i))
  ELSE IF ch < 245 THEN                                     \* leading 4
    IF i + 3 >= s.buffer_pos THEN Return(early_out(s, i))
    ELSE IF BitAnd(ch1, 192) # 128 \/ BitAnd(ch2, 192) # 128
            \/ BitAnd(ch3, 192) # 128
      THEN Continue(bad_byte(s, ENCODING, i))
    ELSE LET u == BitOr(BitOr(BitOr(Shl(BitAnd(ch, 15), 18),
                                    Shl(BitAnd(ch1, 63), 12)),
                              Shl(BitAnd(ch2, 63), 6)),
                        BitAnd(ch3, 63)) IN
         Continue(residual(IF u < 65536 THEN bad_bytes(s, 4, OVERLONG, i)
                           ELSE s, ch, i))
  ELSE Continue(bad_byte(s, ENCODING, i))                   \* illegal 0xf5-0xff

\* faulty variant: a pass that scans the whole buffer does not empty it
RECURSIVE consume_loop_noreset(_, _)
consume_loop_noreset(s, i) ==
  IF i < s.buffer_pos
    THEN LET r == consume_iter(s, i) IN
         IF r.ret THEN r.s ELSE consume_loop_noreset(r.s, i + 1)
    ELSE [flush_output(s, s.buffer_pos) EXCEPT !.buffer_out = 0]

RECURSIVE consume_loop(_, _)
consume_loop(s, i) ==
  IF i < s.buffer_pos
    THEN LET r == consume_iter(s, i) IN
         IF r.ret THEN r.s ELSE consume_loop(r.s, i + 1)
    ELSE [flush_output(s, s.buffer_pos) EXCEPT
            !.buffer_out = 0, !.buffer_pos = 0, !.buffer = <<>>,
            !.base = s.base + s.buffer_pos]

consume(s) == consume_loop(s, 0)

\* faulty variant: the loop over the truncated tail stops one byte early
RECURSIVE run_fd_tail_short(_, _)
run_fd_tail_short(s, i) ==
  IF i + 1 < s.buffer_pos
    THEN run_fd_tail_short(bad_byte(s, ENCODING, i), i + 1) ELSE s

\* the loop of run_fd() after the read loop: the truncated tail
RECURSIVE run_fd_tail(_, _)
run_fd_tail(s, i) ==
  IF i < s.buffer_pos THEN run_fd_tail(bad_byte(s, ENCODING, i), i + 1) ELSE s

\* read() delivering the next len bytes of the source src at file offset off
read(s, src, off, len) ==
  [s EXCEPT !.buffer = SubSeq(s.buffer, 1, s.buffer_pos)
                       \o SubSeq(src, off + 1, off + len)]

\* ----------------------------------------------------------------- inputs
SeqsUpTo(A, n) == UNION {[1..m -> A] : m \in 0..n}

\* 'a', two continuation bytes, 2-byte leads, a 3-byte and a 4-byte lead
AlphaUtf8 == {97, 128, 160, 192, 194, 224, 240}
\* 0x01, '\n', '\r', ' ', 'a', a 2-byte lead, an illegal byte
AlphaText == {1, 10, 13, 32, 97, 195, 255}
\* ' ', '\n', a continuation byte, a 3-byte lead
AlphaPart == {10, 32, 130, 226}
\* continuation bytes and leads that encode U+0080 in 2, 3 and 4 bytes
AlphaHigh == {128, 130, 194, 224, 240}

SingleInputs ==
  SeqsUpTo(AlphaUtf8, MaxLen) \cup SeqsUpTo(AlphaText, MaxLen)
    \cup SeqsUpTo(AlphaHigh, MaxLen) \cup SeqsUpTo({1}, MaxRun)

SourceLists ==
  {<<f>> : f \in SingleInputs}
    \cup {<<f, g>> : f \in SeqsUpTo(AlphaPart, MaxPart),
                     g \in SeqsUpTo(AlphaPart, MaxPart)}

\* ---------------------------------------------------------------- actions
SetGlobals(s) ==
  /\ buffer' = s.buffer
  /\ buffer_out' = s.buffer_out
  /\ buffer_pos' = s.buffer_pos
  /\ last_byte_nl' = s.last_byte_nl
  /\ last_byte_cr' = s.last_byte_cr
  /\ last_byte_whitespace' = s.last_byte_whitespace
  /\ current_condition' = s.current_condition
  /\ out' = s.out
  /\ base' = s.base

\* the globals of match before main() runs; version "" : match is not run
MatchGlobals ==
  /\ version = ""
  /\ match_param = <<>>
  /\ max_columns = 0
  /\ report_count = 0
  /\ use_color = 0
  /\ state_binary = 0
  /\ match_count = 0
  /\ line_match_count = 0

\* the globals of textstats before main() runs
StatsGlobals ==
  /\ ulen = 1
  /\ umin = 0
  /\ umax = 0
  /\ u_acc = 0
  /\ utf8_missing_continuation_count = 0
  /\ utf8_orphan_continuation_count = 0
  /\ utf8_overlong_count = 0
  /\ utf8_upper_control_count = 0
  /\ utf8_illegal_count = 0
  /\ line_count = 0
  /\ windows_line_count = 0
  /\ trailing_whitespace_count = 0
  /\ null_char_count = 0
  /\ control_count = 0
  /\ upper_control_count = 0
  /\ upper_printable_count = 0
  /\ latin1_finnish_count = 0

Init ==
  /\ srcs \in SourceLists
  /\ index = 0
  /\ offset = 0
  /\ buffer = InitGlobals.buffer
  /\ buffer_out = InitGlobals.buffer_out
  /\ buffer_pos = InitGlobals.buffer_pos
  /\ last_byte_nl = InitGlobals.last_byte_nl
  /\ last_byte_cr = InitGlobals.last_byte_cr
  /\ last_byte_whitespace = InitGlobals.last_byte_whitespace
  /\ current_condition = InitGlobals.current_condition
  /\ out = InitGlobals.out
  /\ base = InitGlobals.base
  /\ reads = 0
  /\ pc = "run"
  /\ status = -1
  /\ MatchGlobals
  /\ StatsGlobals

\* faulty variant: the scanner state is reset when a source is opened
OpenSource_reset ==
  /\ pc = "run"
  /\ index < Len(srcs)
  /\ index' = index + 1
  /\ offset' = 0
  /\ reads' = 0
  /\ pc' = "run_fd"
  /\ last_byte_nl' = FALSE
  /\ last_byte_cr' = FALSE
  /\ last_byte_whitespace' = FALSE
  /\ current_condition' = OK
  /\ UNCHANGED <<srcs, buffer, buffer_out, buffer_pos, out, base, status>>
  /\ UNCHANGED <<match_vars, stats_vars>>

\* the runs checked for termination: one source over 0x01, 'a', a
\* continuation byte, a 3-byte lead and an illegal byte, or two sources
AlphaLive == {1, 97, 128, 224, 255}
LiveLists ==
  {<<f>> : f \in SeqsUpTo(AlphaLive, MaxLive)}
    \cup {<<f, g>> : f \in SeqsUpTo({128, 224}, MaxPart),
                     g \in SeqsUpTo({128, 224}, MaxPart)}

InitLive ==
  /\ srcs \in LiveLists
  /\ index = 0
  /\ offset = 0
  /\ buffer = InitGlobals.buffer
  /\ buffer_out = InitGlobals.buffer_out
  /\ buffer_pos = InitGlobals.buffer_pos
  /\ last_byte_nl = InitGlobals.last_byte_nl
  /\ last_byte_cr = InitGlobals.last_byte_cr
  /\ last_byte_whitespace = InitGlobals.last_byte_whitespace
  /\ current_condition = InitGlobals.current_condition
  /\ out = InitGlobals.out
  /\ base = InitGlobals.base
  /\ reads = 0
  /\ pc = "run"
  /\ status = -1
  /\ MatchGlobals
  /\ StatsGlobals

\* run(): the next source is opened and run_fd() is entered
OpenSource ==
  /\ pc = "run"
  /\ index < Len(srcs)
  /\ index' = index + 1
  /\ offset' = 0
  /\ reads' = 0
  /\ pc' = "run_fd"
  /\ UNCHANGED <<srcs, buffer, buffer_out, buffer_pos, last_byte_nl,
                 last_byte_cr, last_byte_whitespace, current_condition, out,
                 base, status>>
  /\ UNCHANGED <<match_vars, stats_vars>>

\* run_fd(): read() returns len > 0 bytes, then consume() makes one pass
ReadChunk ==
  /\ pc = "run_fd"
  /\ \E len \in 1..(Len(srcs[index]) - offset) :
       /\ len <= buffer_len - buffer_pos
       /\ offset' = offset + len
       /\ reads' = reads + 1
       /\ SetGlobals(consume([read(Globals, srcs[index], offset, len)
                                EXCEPT !.buffer_pos = @ + len]))
  /\ UNCHANGED <<srcs, index, pc, status>>
  /\ UNCHANGED <<match_vars, stats_vars>>

\* run_fd(): read() returns 0, the pending bytes are reported, run_fd returns
ReadEof ==
  /\ pc = "run_fd"
  /\ offset = Len(srcs[index])
  /\ SetGlobals(run_fd_tail(Globals, 0))
  /\ pc' = "run"
  /\ UNCHANGED <<srcs, index, offset, reads, status>>
  /\ UNCHANGED <<match_vars, stats_vars>>

\* faulty variant: the exit status tells whether a defect was reported
MainReturn_defects ==
  /\ pc = "run"
  /\ index = Len(srcs)
  /\ pc' = "exit"
  /\ status' = IF \E l \in 1..Len(out) : out[l].k = "esc" THEN 1 ELSE 0
  /\ UNCHANGED <<srcs, index, offset, buffer, buffer_out, buffer_pos,
                 last_byte_nl, last_byte_cr, last_byte_whitespace,
                 current_condition, out, base, reads>>
  /\ UNCHANGED <<match_vars, stats_vars>>

\* run() has no source left and main() returns 0
MainReturn ==
  /\ pc = "run"
  /\ index = Len(srcs)
  /\ pc' = "exit"
  /\ status' = 0
  /\ UNCHANGED <<srcs, index, offset, buffer, buffer_out, buffer_pos,
                 last_byte_nl, last_byte_cr, last_byte_whitespace,
                 current_condition, out, base, reads>>
  /\ UNCHANGED <<match_vars, stats_vars>>

Next == OpenSource \/ ReadChunk \/ ReadEof \/ MainReturn

Spec == Init /\ [][Next]_vars

\* error numbers open() and read() fail with (ENOENT, EACCES; EIO, EISDIR) and
\* the one a failed write to stderr leaves (EBADF); 0: the write succeeds
OpenErrnos == {2, 13}
ReadErrnos == {5, 21}
WriteErrnos == {9}

\* errno_printf(): the messages go to stderr, then exit(errno) with errno
\* as the fprintf calls left it
errno_printf(e, w) == IF w = 0 THEN e ELSE w

\* run_fd(): read() returns -1, errno_printf() ends the process
ReadFail ==
  /\ pc = "run_fd"
  /\ pc' = "errno_printf"
  /\ \E e \in ReadErrnos, w \in {0} \cup WriteErrnos :
       status' = errno_printf(e, w)
  /\ UNCHANGED <<srcs, index, offset, buffer, buffer_out, buffer_pos,
                 last_byte_nl, last_byte_cr, last_byte_whitespace,
                 current_condition, out, base, reads>>
  /\ UNCHANGED <<match_vars, stats_vars>>

\* file4read(): open() returns -1, errno_printf() ends the process
OpenFail ==
  /\ pc = "run"
  /\ index < Len(srcs)
  /\ pc' = "errno_printf"
  /\ index' = index + 1
  /\ \E e \in OpenErrnos, w \in {0} \cup WriteErrnos :
       status' = errno_printf(e, w)
  /\ UNCHANGED <<srcs, offset, buffer, buffer_out, buffer_pos,
                 last_byte_nl, last_byte_cr, last_byte_whitespace,
                 current_condition, out, base, reads>>
  /\ UNCHANGED <<match_vars, stats_vars>>

NextIO == OpenFail \/ ReadFail \/ Next

\* the program is sequential and every system call returns: a step that can
\* be taken is taken
SpecLive == InitLive /\ [][NextIO]_vars /\ WF_vars(NextIO)

\* ------------------------------------------------- whole-source reference
\* run_fd() on a source that read() delivers whole, in one call
run_fd_whole(s, src) ==
  run_fd_tail(IF Len(src) > 0
                THEN consume([read(s, src, 0, Len(src))
                                EXCEPT !.buffer_pos = @ + Len(src)])
                ELSE s, 0)

RECURSIVE run_whole(_, _, _)
run_whole(s, list, n) ==
  IF n < Len(list) THEN run_whole(run_fd_whole(s, list[n + 1]), list, n + 1)
  ELSE s

\* ------------------------------------------- vocabulary of the properties
IsByteItem(it) == it.k = "raw" \/ it.k = "esc"
IsMarkup(it) == it.k = "markup"
ByteItems(o) == SelectSeq(o, IsByteItem)
MarkupItems(o) == SelectSeq(o, IsMarkup)
\* the byte items written for the input byte at position p (from 0)
ItemsAt(o, p) == SelectSeq(o, LAMBDA it : IsByteItem(it) /\ it.p = p)
\* the classification under which a byte item was written
ClassOf(it) == IF it.k = "raw" THEN OK ELSE it.c

IsCont(b) == b >= 128 /\ b < 192
\* length of the sequence a byte announces, 0 for a byte that is no lead
UnitLen(b) ==
  IF b < 128 THEN 1
  ELSE IF b < 192 THEN 0
  ELSE IF b < 224 THEN 2
  ELSE IF b < 240 THEN 3
  ELSE IF b < 245 THEN 4
  ELSE 0
\* src[q .. q + UnitLen - 1] is a lead with all its continuation bytes
WellFormedAt(src, q) ==
  /\ UnitLen(src[q]) >= 2
  /\ q + UnitLen(src[q]) - 1 <= Len(src)
  /\ \A r \in (q + 1)..(q + UnitLen(src[q]) - 1) : IsCont(src[r])
CodePoint(src, q) ==
  IF UnitLen(src[q]) = 2 THEN (src[q] - 192) * 64 + (src[q + 1] - 128)
  ELSE IF UnitLen(src[q]) = 3
    THEN (src[q] - 224) * 4096 + (src[q + 1] - 128) * 64 + (src[q + 2] - 128)
  ELSE (src[q] - 240) * 262144 + (src[q + 1] - 128) * 4096
       + (src[q + 2] - 128) * 64 + (src[q + 3] - 128)
MinCodePoint(n) == IF n = 2 THEN 128 ELSE IF n = 3 THEN 2048 ELSE 65536

SingleSource == Len(srcs) = 1
Finished == pc = "exit"

\* C1: chunk-boundary invariance.  However the reads split a single stream,
\* the output items of the finished run are those of the run in which the
\* stream arrives in one read.
C1_ChunkInvariance ==
  Finished /\ SingleSource => out = run_whole(InitGlobals, srcs, 0).out

\* a 4-byte sequence read one byte at a time, deferred three times
C1_Witness ==
  /\ Finished
  /\ srcs = <<<<240, 160, 128, 128>>>>
  /\ reads = 4
  /\ Len(out) > 1

\* C9: coalescing.  Every markup written differs from the classification
\* that was active before it (the previous markup, Clean at the start), the
\* active classification is the last markup written, and no markup stands
\* between two successive byte items of one classification unless the
\* whitespace marker stands there.
C9_Coalescing ==
  LET m == MarkupItems(out) IN
  /\ \A j \in 1..Len(m) : m[j].c # (IF j = 1 THEN OK ELSE m[j - 1].c)
  /\ current_condition = (IF m = <<>> THEN OK ELSE m[Len(m)].c)
  /\ \A i \in 1..Len(out) : \A j \in (i + 1)..Len(out) :
       ( /\ IsByteItem(out[i]) /\ IsByteItem(out[j])
         /\ ClassOf(out[i]) = ClassOf(out[j])
         /\ \A l \in (i + 1)..(j - 1) : IsMarkup(out[l]) )
       => j = i + 1

\* a run of EncodingError bytes that spans a pass boundary and a compaction:
\* 0x80, then a 3-byte lead deferred once and reported in a later pass
C9_Witness ==
  /\ Finished
  /\ srcs = <<<<128, 224, 97, 97>>>>
  /\ reads = 4
  /\ out = <<MarkupItem(ENCODING, 0), EscItem(128, ENCODING, 0),
             EscItem(224, ENCODING, 1), MarkupItem(OK, 2), RawItem(97, 2),
             RawItem(97, 3)>>

\* what the loop after the read loop writes for the pending bytes
TailItems ==
  (IF buffer_pos > 0 /\ current_condition # ENCODING
     THEN <<MarkupItem(ENCODING, base)>> ELSE <<>>)
  \o [j \in 1..buffer_pos |-> EscItem(buffer[j], ENCODING, base + j - 1)]

\* C7: truncated tail.  While the first stream is being read, nothing has
\* been written for a byte still pending in the buffer; and when a read
\* returns 0, the output grows by exactly one EncodingError escape per
\* pending byte, in order.
C7_TruncatedTail ==
  /\ [](pc = "run_fd" /\ index = 1 => \A j \in 1..Len(out) : out[j].p < base)
  /\ [][pc = "run_fd" /\ pc' = "run" => out' = out \o TailItems]_vars

\* 'a' then a lone 3-byte lead: it is reported once the stream has ended
C7_Witness ==
  /\ pc = "run"
  /\ index = 1
  /\ srcs[1] = <<97, 224>>
  /\ out = <<RawItem(97, 0), MarkupItem(ENCODING, 1), EscItem(224, ENCODING, 1)>>

\* clean text: well-formed UTF-8 that is not overlong, no control character
\* but '\n' and '\t', no C1 control, no blank right before a line break
RECURSIVE CleanFrom(_, _)
CleanFrom(src, q) ==
  IF q > Len(src) THEN TRUE
  ELSE IF src[q] < 128
    THEN /\ (src[q] >= 32 \/ src[q] = 10 \/ src[q] = 9)
         /\ src[q] # 127
         /\ (src[q] = 10 /\ q > 1 => src[q - 1] # 32 /\ src[q - 1] # 9)
         /\ CleanFrom(src, q + 1)
  ELSE /\ WellFormedAt(src, q)
       /\ CodePoint(src, q) >= MinCodePoint(UnitLen(src[q]))
       /\ CodePoint(src, q) >= 160
       /\ CleanFrom(src, q + UnitLen(src[q]))

\* C2: round trip on clean input.  A finished run over one clean source has
\* written, apart from transitions to Clean, exactly the input bytes, raw.
C2_RoundTrip ==
  Finished /\ SingleSource /\ CleanFrom(srcs[1], 1)
    => SelectSeq(out, LAMBDA it : ~(IsMarkup(it) /\ it.c = OK))
         = [j \in 1..Len(srcs[1]) |-> RawItem(srcs[1][j], j - 1)]

\* C3: markup balance.  When the run has finished, the last markup written,
\* if any, is the Clean markup.
C3_MarkupBalanced ==
  Finished =>
    LET m == MarkupItems(out) IN m = <<>> \/ m[Len(m)].c = OK

\* the classification of the well-formed sequence that src consists of
UnitClass(src) ==
  IF CodePoint(src, 1) < MinCodePoint(Len(src)) THEN OVERLONG
  ELSE IF Len(src) = 2 /\ CodePoint(src, 1) < 160 THEN HIGH_CONTROL
  ELSE OK

\* C4: a well-formed multi-byte sequence is one unit.  For a source that is
\* exactly one well-formed sequence, the byte items written are its bytes,
\* each once, all under the classification of the sequence.
C4_SequenceIsOneUnit ==
  Finished /\ SingleSource /\ Len(srcs[1]) >= 2
  /\ WellFormedAt(srcs[1], 1) /\ UnitLen(srcs[1][1]) = Len(srcs[1])
    => ByteItems(out) =
         [j \in 1..Len(srcs[1]) |->
            IF UnitClass(srcs[1]) = OK THEN RawItem(srcs[1][j], j - 1)
            ELSE EscItem(srcs[1][j], UnitClass(srcs[1]), j - 1)]

\* position p of src lies inside a well-formed sequence that starts before p
Covered(src, p) ==
  \E q \in 1..(p - 1) : WellFormedAt(src, q) /\ p <= q + UnitLen(src[q]) - 1

\* C5: single-byte units.  In a finished run over one source, an ASCII byte
\* is written once, escaped as ControlChar if it is below 0x20 and neither
\* '\n' nor '\t' and raw otherwise; a continuation byte outside every
\* well-formed sequence and a byte >= 0xF5 are written once as EncodingError.
C5_SingleByteUnits ==
  Finished /\ SingleSource =>
    \A p \in 1..Len(srcs[1]) :
      LET b == srcs[1][p] IN
      /\ b < 128 =>
           ItemsAt(out, p - 1) =
             <<IF b < 32 /\ b # 10 /\ b # 9
                 THEN EscItem(b, CONTROL, p - 1) ELSE RawItem(b, p - 1)>>
      /\ (b >= 245 \/ (IsCont(b) /\ ~Covered(srcs[1], p))) =>
           ItemsAt(out, p - 1) = <<EscItem(b, ENCODING, p - 1)>>

\* the nearest byte before position p that is not '\r' is a space or a tab
RECURSIVE BlankBefore(_, _)
BlankBefore(src, p) ==
  IF p <= 1 THEN FALSE
  ELSE IF src[p - 1] = 13 THEN BlankBefore(src, p - 1)
  ELSE src[p - 1] = 32 \/ src[p - 1] = 9

\* C6: trailing whitespace.  In a finished run over one source, for every
\* '\n' of the input: if the nearest preceding byte that is not '\r' is a
\* blank, the marker stands right before the newline, which is written raw
\* after the transition to Clean; otherwise no marker is written for it.
C6_TrailingWhitespace ==
  Finished /\ SingleSource =>
    \A p \in 1..Len(srcs[1]) :
      srcs[1][p] = 10 =>
        IF BlankBefore(srcs[1], p)
          THEN \E l \in 3..Len(out) :
                 /\ out[l] = RawItem(10, p - 1)
                 /\ out[l - 1] = MarkupItem(OK, p - 1)
                 /\ out[l - 2] = MarkerItem(TRAILING_WHITESPACE, p - 1)
          ELSE \A l \in 1..Len(out) :
                 ~(out[l].k = "marker" /\ out[l].p = p - 1)

\* C8: a run of n >= 1 bytes 0x01 is written as one ControlChar markup, n
\* escapes <01> and one closing Clean markup.
C8_ControlRun ==
  Finished /\ SingleSource /\ Len(srcs[1]) >= 1
  /\ (\A j \in 1..Len(srcs[1]) : srcs[1][j] = 1)
    => /\ Len(out) = Len(srcs[1]) + 2
       /\ out[1] = MarkupItem(CONTROL, 0)
       /\ \A j \in 1..Len(srcs[1]) : out[j + 1] = EscItem(1, CONTROL, j - 1)
       /\ IsMarkup(out[Len(out)]) /\ out[Len(out)].c = OK

\* C10: deferral policy.  After a pass over the first stream, bytes are
\* retained only if they are a lead followed by nothing but well-formed
\* continuation bytes, too few to complete its sequence.
C10_DeferralPolicy ==
  pc = "run_fd" /\ index = 1 /\ buffer_pos > 0 =>
    /\ UnitLen(buffer[1]) > buffer_pos
    /\ \A j \in 2..buffer_pos : IsCont(buffer[j])

\* ------------------------------------------------ inside a pass of consume
\* the states of consume() at the head of its for loop, with the loop index
\* i: one entry per iteration, and one for the test that leaves the loop
RECURSIVE consume_heads(_, _)
consume_heads(s, i) ==
  IF i < s.buffer_pos
    THEN LET r == consume_iter(s, i) IN
         <<[s |-> s, i |-> i]>>
           \o (IF r.ret THEN <<>> ELSE consume_heads(r.s, i + 1))
    ELSE <<[s |-> s, i |-> i]>>

\* the states in which run_fd() can call consume() next: one per read length
NextPasses ==
  IF pc = "run_fd"
    THEN {[read(Globals, srcs[index], offset, len)
             EXCEPT !.buffer_pos = @ + len] :
            len \in 1..(Len(srcs[index]) - offset)}
    ELSE {}

\* C11: no revision.  In a finished run over one source every input byte
\* has been written exactly once, raw or escaped, in input order.
C11_EachByteOnce ==
  Finished /\ SingleSource =>
    /\ Len(ByteItems(out)) = Len(srcs[1])
    /\ \A j \in 1..Len(ByteItems(out)) :
         /\ ByteItems(out)[j].p = j - 1
         /\ ByteItems(out)[j].b = srcs[1][j]

\* C20: source isolation.  Whenever run_fd() has returned, the working
\* buffer holds no pending bytes.
C20_SourceIsolation ==
  pc = "run" => buffer_pos = 0

\* C12: no reset at source boundaries.  Opening the next source leaves the
\* residual flags and the active classification as run_fd() left them; and
\* when a source ends in a space and the next one starts with '\n', the
\* finished run has written the whitespace marker for that newline.
C12_NoResetAtBoundary ==
  /\ [][pc = "run" /\ pc' = "run_fd" =>
          /\ last_byte_nl' = last_byte_nl
          /\ last_byte_cr' = last_byte_cr
          /\ last_byte_whitespace' = last_byte_whitespace
          /\ current_condition' = current_condition]_vars
  /\ [](Finished /\ Len(srcs) = 2 /\ srcs[1] # <<>> /\ srcs[2] # <<>>
        /\ srcs[1][Len(srcs[1])] = 32 /\ srcs[2][1] = 10
          => \E l \in 1..Len(out) :
               out[l] = MarkerItem(TRAILING_WHITESPACE, Len(srcs[1])))

\* " " then "\n" in two sources: blank, marker, newline
C12_Witness ==
  /\ Finished
  /\ srcs = <<<<32>>, <<10>>>>
  /\ out = <<RawItem(32, 0), MarkupItem(TRAILING_WHITESPACE, 1),
             MarkerItem(TRAILING_WHITESPACE, 1), MarkupItem(OK, 1),
             RawItem(10, 1)>>

\* number of bytes of all sources together
RECURSIVE TotalLen(_, _)
TotalLen(list, n) ==
  IF n < Len(list) THEN Len(list[n + 1]) + TotalLen(list, n + 1) ELSE 0

\* C13: termination regardless of defects.  Unless an open or a read fails,
\* the run reaches the return of main with exit status 0, and by then
\* something has been written for every byte of every source.
C13_Termination ==
  <>( \/ pc = "errno_printf"
      \/ /\ pc = "exit"
         /\ status = 0
         /\ \A p \in 0..(TotalLen(srcs, 0) - 1) : ItemsAt(out, p) # <<>> )

\* a source with a control character, an illegal byte and a truncated
\* 3-byte lead has been read to its end
C13_Witness ==
  /\ pc = "exit"
  /\ status = 0
  /\ srcs = <<<<1, 255, 224>>>>
  /\ Len(ByteItems(out)) = 3
  /\ \E l \in 1..Len(out) : out[l] = EscItem(224, ENCODING, 2)

\* C14: fatal I/O errors.  A failed read, or a failed open, ends the process
\* at once with the error code of the failed call as exit status: nothing
\* more is written, in particular nothing for the bytes still pending in the
\* buffer, and no step follows.
C14_FatalIO ==
  /\ [][pc' = "errno_printf" /\ pc = "run_fd"
          => status' \in ReadErrnos /\ out' = out]_vars
  /\ [][pc' = "errno_printf" /\ pc = "run"
          => status' \in OpenErrnos /\ out' = out]_vars
  /\ [][pc # "errno_printf"]_vars

\* C15: working-buffer cursor invariant.  At every head of the scan loop of
\* every pass, 0 <= buffer_out <= i <= buffer_pos <= buffer_len.
C15_CursorInvariant ==
  \A s0 \in NextPasses :
    \A k \in 1..Len(consume_heads(s0, 0)) :
      LET h == consume_heads(s0, 0)[k] IN
        /\ 0 <= h.s.buffer_out
        /\ h.s.buffer_out <= h.i
        /\ h.i <= h.s.buffer_pos
        /\ h.s.buffer_pos <= buffer_len

\* the last loop head of the pass that starts in s0
LastHead(s0) == consume_heads(s0, 0)[Len(consume_heads(s0, 0))]

\* the pass that starts in s0 ends in early_out()
Deferring(s0) ==
  /\ LastHead(s0).i < LastHead(s0).s.buffer_pos
  /\ consume_iter(LastHead(s0).s, LastHead(s0).i).ret

\* C16: compaction.  When a pass ends in early_out(k), every byte before k
\* has been written, the buffer holds the old bytes from k on in the same
\* order, buffer_pos has gone down by k, buffer_out is 0, the residual flags
\* are the same, and the active classification is the same unless pending
\* clean bytes were flushed, which makes it OK.
C16_Compaction ==
  \A s0 \in NextPasses :
    Deferring(s0) =>
      LET pre == LastHead(s0).s
          k == LastHead(s0).i
          post == consume(s0)
      IN
        /\ \A p \in pre.base..(pre.base + k - 1) : ItemsAt(post.out, p) # <<>>
        /\ post.buffer = SubSeq(pre.buffer, k + 1, pre.buffer_pos)
        /\ post.buffer_pos = pre.buffer_pos - k
        /\ post.buffer_out = 0
        /\ post.last_byte_nl = pre.last_byte_nl
        /\ post.last_byte_cr = pre.last_byte_cr
        /\ post.last_byte_whitespace = pre.last_byte_whitespace
        /\ post.current_condition =
             (IF k > pre.buffer_out THEN OK ELSE pre.current_condition)
        /\ ByteItems(post.out) =
             ByteItems(pre.out)
               \o [j \in 1..(IF k > pre.buffer_out THEN k - pre.buffer_out ELSE 0)
                     |-> RawItem(pre.buffer[pre.buffer_out + j],
                                 pre.base + pre.buffer_out + j - 1)]

\* a control character, a pending clean byte and a lone 2-byte lead have been
\* read in one pass: the lead is alone at the front of the buffer
C16_Witness ==
  /\ pc = "run_fd"
  /\ srcs = <<<<1, 97, 195>>>>
  /\ reads = 1
  /\ offset = 3
  /\ buffer = <<195>>
  /\ buffer_pos = 1
  /\ buffer_out = 0
  /\ base = 2
  /\ current_condition = OK
  /\ out = <<MarkupItem(CONTROL, 0), EscItem(1, CONTROL, 0),
             MarkupItem(OK, 1), RawItem(97, 1)>>

\* C17: bounded leftover and read progress.  Whenever read() is called, the
\* bytes kept in the buffer are none, or 1 to 3 bytes that start with a
\* multi-byte lead and are fewer than the lead announces; so the free
\* capacity passed to read() is positive, what read() delivers ends inside
\* the buffer, and run_fd leaves its read loop at the end of the source only.
C17_BoundedLeftover ==
  /\ [](pc = "run_fd" =>
          /\ buffer_pos = Len(buffer)
          /\ buffer_pos \in 0..3
          /\ buffer_pos > 0 =>
               UnitLen(buffer[1]) >= 2 /\ buffer_pos < UnitLen(buffer[1])
          /\ buffer_len - buffer_pos > 0
          /\ \A s0 \in NextPasses : s0.buffer_pos <= buffer_len)
  /\ [][pc = "run_fd" /\ pc' = "run" =>
          offset = Len(srcs[index]) /\ buffer_len - buffer_pos > 0]_vars

\* after 'a' and three of the four bytes of a sequence, the three bytes are
\* kept for the next read
C17_Witness ==
  /\ pc = "run_fd"
  /\ srcs = <<<<97, 240, 128, 128>>>>
  /\ offset = 4
  /\ buffer = <<240, 128, 128>>
  /\ buffer_pos = 3
  /\ buffer_out = 0
  /\ base = 1
  /\ out = <<RawItem(97, 0)>>

\* the byte at index i of the buffer b is a lead whose following bytes are
\* all in b[0 .. n) and at least one of them is no continuation byte
MalformedAt(b, n, i) ==
  /\ i < n
  /\ UnitLen(b[i + 1]) >= 2
  /\ i + UnitLen(b[i + 1]) - 1 < n
  /\ \E j \in (i + 1)..(i + UnitLen(b[i + 1]) - 1) : ~IsCont(b[j + 1])

\* C18: malformed continuation.  When the scan reaches a lead whose following
\* bytes are in the buffer and one of them is no continuation byte, it
\* writes the pending clean bytes and one EncodingError escape for the lead,
\* and goes on at the very next byte.  In the output of a finished run over
\* one source the lead has that escape only, and the byte after it is
\* written as a unit of its own: raw or ControlChar if ASCII, EncodingError
\* if a continuation byte or a byte >= 0xF5.  0xC3 'a' gives <c3> as
\* EncodingError and 'a' clean.
C18_MalformedContinuation ==
  /\ \A s0 \in NextPasses :
       \A k \in 1..Len(consume_heads(s0, 0)) :
         LET hs == consume_heads(s0, 0)
             pre == hs[k].s
             i == hs[k].i
         IN
         MalformedAt(pre.buffer, pre.buffer_pos, i) =>
           /\ k < Len(hs)
           /\ hs[k + 1].i = i + 1
           /\ hs[k + 1].s.buffer_out = i + 1
           /\ hs[k + 1].s.current_condition = ENCODING
           /\ ByteItems(hs[k + 1].s.out) =
                ByteItems(pre.out)
                  \o [j \in 1..(IF i > pre.buffer_out THEN i - pre.buffer_out
                                ELSE 0)
                        |-> RawItem(pre.buffer[pre.buffer_out + j],
                                    pre.base + pre.buffer_out + j - 1)]
                  \o <<EscItem(pre.buffer[i + 1], ENCODING, pre.base + i)>>
  /\ Finished /\ SingleSource =>
       \A q \in 1..Len(srcs[1]) :
         MalformedAt(srcs[1], Len(srcs[1]), q - 1) =>
           LET b == srcs[1][q + 1] IN
           /\ ItemsAt(out, q - 1) = <<EscItem(srcs[1][q], ENCODING, q - 1)>>
           /\ b < 128 =>
                ItemsAt(out, q) =
                  <<IF b < 32 /\ b # 10 /\ b # 9
                      THEN EscItem(b, CONTROL, q) ELSE RawItem(b, q)>>
           /\ IsCont(b) \/ b >= 245 =>
                ItemsAt(out, q) = <<EscItem(b, ENCODING, q)>>
  /\ Finished /\ srcs = <<<<195, 97>>>> =>
       out = <<MarkupItem(ENCODING, 0), EscItem(195, ENCODING, 0),
               MarkupItem(OK, 1), RawItem(97, 1)>>

\* the loop heads of the passes that can come next at which the scan is at
\* the lead of a well-formed sequence, all in the buffer, that encodes a code
\* point in U+0080..U+009F
HighControlHeads ==
  {h \in UNION {{consume_heads(s0, 0)[k] : k \in 1..Len(consume_heads(s0, 0))}
                  : s0 \in NextPasses} :
     /\ h.i < h.s.buffer_pos
     /\ WellFormedAt(h.s.buffer, h.i + 1)
     /\ CodePoint(h.s.buffer, h.i + 1) \in 128..159}

\* the iteration at the loop head h writes the pending clean bytes and then
\* the n bytes from h.i on as escapes under cls
WritesUnit(h, n, cls) ==
  LET pre == h.s
      post == consume_iter(h.s, h.i).s
      pending == IF h.i > pre.buffer_out THEN h.i - pre.buffer_out ELSE 0
  IN
  /\ post.current_condition = cls
  /\ ByteItems(post.out) =
       ByteItems(pre.out)
         \o [j \in 1..pending |->
               RawItem(pre.buffer[pre.buffer_out + j],
                       pre.base + pre.buffer_out + j - 1)]
         \o [j \in 1..n |->
               EscItem(pre.buffer[h.i + j], cls, pre.base + h.i + j - 1)]

\* C19 as stated: high control irrespective of encoding length.  A
\* well-formed sequence of 2, 3 or 4 bytes whose code point lies in
\* U+0080..U+009F is written as HighControl.
C19_HighControlAnyLength ==
  \A h \in HighControlHeads :
    WritesUnit(h, UnitLen(h.s.buffer[h.i + 1]), HIGH_CONTROL)

\* C19 amended: the scan writes a well-formed 2-byte sequence whose code
\* point lies in U+0080..U+009F as two HighControl escapes, and a well-formed
\* 3- or 4-byte sequence that encodes such a code point as Overlong.
C19_HighControlTwoBytes ==
  \A h \in HighControlHeads :
    LET n == UnitLen(h.s.buffer[h.i + 1]) IN
    WritesUnit(h, n, IF n = 2 THEN HIGH_CONTROL ELSE OVERLONG)

\* 0xC2 0x80 (U+0080 in two bytes) has been scanned: its two bytes were
\* written as HighControl
C19_Witness ==
  /\ Finished
  /\ srcs = <<<<194, 128>>>>
  /\ SubSeq(out, 1, 3) = <<MarkupItem(HIGH_CONTROL, 0),
                           EscItem(194, HIGH_CONTROL, 0),
                           EscItem(128, HIGH_CONTROL, 1)>>

\* ================================================================== match
\* The two sources of match: src/match.c and the C source in src/Makefile.
\* The globals of match as one record the functions transform.
MatchState ==
  [version |-> version, match_param |-> match_param,
   buffer_len |-> max_columns, buffer |-> buffer, buffer_pos |-> buffer_pos,
   report_count |-> report_count, use_color |-> use_color,
   state_binary |-> state_binary, match_count |-> match_count,
   line_match_count |-> line_match_count, out |-> out]

\* memchr(b + from, c, n): index of the first c in b[from .. from + n), or -1
memchr(b, from, n, c) ==
  LET hits == {j \in from..(from + n - 1) : b[j + 1] = c} IN
  IF hits = {} THEN -1 ELSE CHOOSE j \in hits : \A k \in hits : j <= k

\* the escape sequences "\033[1m" and "\033[0m" as bytes
bold == <<27, 91, 49, 109>>
attribute_reset == <<27, 91, 48, 109>>

\* the test at the head of output_part(), output_tail() and output_full()
\* that the two sources share; src/Makefile also tests state_binary
output_off(s) ==
  (s.version = "Makefile" /\ s.state_binary = 1) \/ s.report_count = 1

\* output_part(prev, ptr): with colour, the bytes of line from prev up to the
\* match at ptr, then the match in bold
output_part(s, line, prev, ptr) ==
  IF output_off(s) \/ s.use_color = 0 THEN s
  ELSE [s EXCEPT !.out = @ \o SubSeq(line, prev + 1, ptr) \o bold
                           \o SubSeq(line, ptr + 1, ptr + Len(s.match_param))
                           \o attribute_reset]

\* output_tail(prev, ...): with colour, the bytes of line after the last match
output_tail(s, line, prev) ==
  IF output_off(s) \/ s.use_color = 0 THEN s
  ELSE [s EXCEPT !.out = @ \o SubSeq(line, prev + 1, Len(line))]

\* output_full(line, line_len): without colour, the whole line
output_full(s, line) ==
  IF output_off(s) \/ s.use_color = 1 THEN s
  ELSE [s EXCEPT !.out = @ \o line]

\* the while loop of consume_line(): the matches counted in line from start,
\* prev is the end of the last match; every match is written by output_part
RECURSIVE consume_line_loop(_, _, _, _, _)
consume_line_loop(s, line, start, prev, match) ==
  LET param == s.match_param
      len == Len(line) - start
  IN
  IF len < Len(param) THEN [s |-> s, match |-> match, prev |-> prev]
  ELSE LET ptr == memchr(line, start, len - Len(param) + 1, param[1]) IN
       IF ptr = -1 THEN [s |-> s, match |-> match, prev |-> prev]
       ELSE IF SubSeq(line, ptr + 1, ptr + Len(param)) = param
         THEN consume_line_loop(output_part(s, line, prev, ptr), line,
                                ptr + Len(param), ptr + Len(param), match + 1)
         ELSE consume_line_loop(s, line, ptr + 1, prev, match)

\* src/match.c: consume_line() writes a line that matches and returns the
\* number of matches in the line
consume_line_c(s, line) ==
  LET r == consume_line_loop(s, line, 0, 0, 0) IN
  [s |-> IF r.match > 0
           THEN output_tail(output_full(r.s, line), line, r.prev)
           ELSE r.s,
   ret |-> r.match]

\* src/Makefile: consume_line() writes a line that matches and adds to
\* match_count and line_match_count
consume_line_mk(s, line) ==
  LET r == consume_line_loop(s, line, 0, 0, 0) IN
  IF r.match > 0
    THEN [output_tail(output_full(r.s, line), line, r.prev)
            EXCEPT !.match_count = @ + r.match, !.line_match_count = @ + 1]
    ELSE r.s

\* the memmove of consume_binary(): the last match_param_len - 1 bytes stay
carry_over(s) ==
  [s EXCEPT
     !.buffer = SubSeq(s.buffer, s.buffer_pos - Len(s.match_param) + 2,
                       s.buffer_pos),
     !.buffer_pos = Len(s.match_param) - 1]

\* src/match.c: consume_binary(), the state after it and what it returns
consume_binary_c(s) ==
  IF s.buffer_pos < Len(s.match_param) THEN [s |-> s, ret |-> 0]
  ELSE LET ptr == memchr(s.buffer, 0, s.buffer_pos, s.match_param[1]) IN
       IF /\ ptr # -1
          /\ ptr + Len(s.match_param) <= s.buffer_pos
          /\ SubSeq(s.buffer, ptr + 1, ptr + Len(s.match_param)) = s.match_param
         THEN [s |-> [s EXCEPT !.buffer = <<>>, !.buffer_pos = 0], ret |-> 1]
         ELSE [s |-> carry_over(s), ret |-> 0]

\* src/Makefile: consume_binary()
consume_binary_mk(s) ==
  IF s.buffer_pos < Len(s.match_param) THEN s
  ELSE carry_over(consume_line_mk(s, SubSeq(s.buffer, 1, s.buffer_pos)))

\* src/match.c: the loop of consume() over the complete lines from offset
\* line on, then the memmove of the rest
RECURSIVE consume_lines_c(_, _, _)
consume_lines_c(s, line, match) ==
  LET ptr == memchr(s.buffer, line, s.buffer_pos - line, 10) IN
  IF ptr # -1
    THEN LET r == consume_line_c(s, SubSeq(s.buffer, line + 1, ptr + 1)) IN
         consume_lines_c(r.s, ptr + 1, match + r.ret)
    ELSE [s |-> [s EXCEPT !.buffer = SubSeq(s.buffer, line + 1, s.buffer_pos),
                          !.buffer_pos = s.buffer_pos - line],
          ret |-> match]

\* src/Makefile: the same loop
RECURSIVE consume_lines_mk(_, _)
consume_lines_mk(s, line) ==
  LET ptr == memchr(s.buffer, line, s.buffer_pos - line, 10) IN
  IF ptr # -1
    THEN consume_lines_mk(
           consume_line_mk(s, SubSeq(s.buffer, line + 1, ptr + 1)), ptr + 1)
    ELSE [s EXCEPT !.buffer = SubSeq(s.buffer, line + 1, s.buffer_pos),
                   !.buffer_pos = s.buffer_pos - line]

\* src/match.c: consume(force)
consume_c(s, force) ==
  IF s.state_binary = 1 THEN consume_binary_c(s)
  ELSE IF memchr(s.buffer, 0, s.buffer_pos, 10) # -1
    THEN consume_lines_c(s, 0, 0)
  ELSE IF force THEN consume_binary_c([s EXCEPT !.state_binary = 1])
  ELSE [s |-> s, ret |-> 0]

\* src/Makefile: consume(force)
consume_mk(s, force) ==
  IF s.state_binary = 1 THEN consume_binary_mk(s)
  ELSE IF memchr(s.buffer, 0, s.buffer_pos, 10) # -1
    THEN consume_lines_mk(s, 0)
  ELSE IF force THEN consume_binary_mk([s EXCEPT !.state_binary = 1])
  ELSE s

\* run_fd() of match: read() has delivered len bytes of src from offset off;
\* buffer_pos += len and consume(buffer_pos == buffer_len)
match_pass(s, src, off, len) ==
  LET t == [s EXCEPT
              !.buffer = SubSeq(s.buffer, 1, s.buffer_pos)
                           \o SubSeq(src, off + 1, off + len),
              !.buffer_pos = s.buffer_pos + len]
  IN
  IF s.version = "match.c"
    THEN LET r == consume_c(t, t.buffer_pos = t.buffer_len) IN
         [r.s EXCEPT !.match_count = s.match_count + r.ret]
    ELSE consume_mk(t, t.buffer_pos = t.buffer_len)

\* run_fd() of match after the read loop: the last line, if it has no newline
match_tail(s) ==
  IF s.state_binary = 0 /\ s.buffer_pos # 0
    THEN IF s.version = "match.c"
           THEN consume_line_c(s, SubSeq(s.buffer, 1, s.buffer_pos)).s
         ELSE consume_line_mk(s, SubSeq(s.buffer, 1, s.buffer_pos))
    ELSE s

\* the inputs of match: sources over '\n', 'a', 'b', one or two of them
MatchAlpha == {10, 97, 98}
MatchLists ==
  {<<f>> : f \in SeqsUpTo(MatchAlpha, MaxMatchLen)}
    \cup {<<f, g>> : f \in SeqsUpTo({10, 97}, MaxPart),
                     g \in SeqsUpTo({10, 97}, MaxPart)}

\* the patterns: not empty, over 'a', 'b'
MatchParams == SeqsUpTo({97, 98}, MaxPat) \ {<<>>}

\* match after parse_options() and the checks of run(): the pattern is
\* shorter than the maximum line length, the buffer has max_columns bytes
InitMatch ==
  /\ srcs \in MatchLists
  /\ version \in {"match.c", "Makefile"}
  /\ match_param \in MatchParams
  /\ max_columns \in 2..MaxColumns
  /\ Len(match_param) < max_columns
  /\ report_count \in {0, 1}
  /\ use_color \in {0, 1}
  /\ state_binary = 0
  /\ match_count = 0
  /\ line_match_count = 0
  /\ index = 0
  /\ offset = 0
  /\ buffer = <<>>
  /\ buffer_pos = 0
  /\ buffer_out = InitGlobals.buffer_out
  /\ last_byte_nl = InitGlobals.last_byte_nl
  /\ last_byte_cr = InitGlobals.last_byte_cr
  /\ last_byte_whitespace = InitGlobals.last_byte_whitespace
  /\ current_condition = InitGlobals.current_condition
  /\ out = InitGlobals.out
  /\ base = InitGlobals.base
  /\ reads = 0
  /\ pc = "run"
  /\ status = -1
  /\ StatsGlobals

SetMatch(s) ==
  /\ buffer' = s.buffer
  /\ buffer_pos' = s.buffer_pos
  /\ state_binary' = s.state_binary
  /\ match_count' = s.match_count
  /\ line_match_count' = s.line_match_count
  /\ out' = s.out

\* what match never touches
MatchFrame ==
  UNCHANGED <<srcs, version, match_param, max_columns, report_count,
              use_color, buffer_out, last_byte_nl, last_byte_cr,
              last_byte_whitespace, current_condition, base, status,
              stats_vars>>

\* run() of match: the next file is opened and run_fd() is entered
MatchOpen ==
  /\ pc = "run"
  /\ index < Len(srcs)
  /\ index' = index + 1
  /\ offset' = 0
  /\ reads' = 0
  /\ pc' = "run_fd"
  /\ UNCHANGED <<buffer, buffer_pos, state_binary, match_count,
                 line_match_count, out>>
  /\ MatchFrame

\* run_fd() of match: read() returns len > 0 bytes, then consume()
MatchRead ==
  /\ pc = "run_fd"
  /\ \E len \in 1..(Len(srcs[index]) - offset) :
       /\ len <= max_columns - buffer_pos
       /\ offset' = offset + len
       /\ reads' = reads + 1
       /\ SetMatch(match_pass(MatchState, srcs[index], offset, len))
  /\ UNCHANGED <<index, pc>>
  /\ MatchFrame

\* run_fd() of match: read() returns 0, at the end of the file or because
\* the buffer has no room; the last line is looked at and run_fd returns
MatchEof ==
  /\ pc = "run_fd"
  /\ offset = Len(srcs[index]) \/ max_columns - buffer_pos = 0
  /\ SetMatch(match_tail(MatchState))
  /\ pc' = "run"
  /\ UNCHANGED <<index, offset, reads>>
  /\ MatchFrame

\* main() of match returns !match_count
MatchReturn ==
  /\ pc = "run"
  /\ index = Len(srcs)
  /\ pc' = "exit"
  /\ status' = IF match_count = 0 THEN 1 ELSE 0
  /\ UNCHANGED <<srcs, index, offset, reads, buffer, buffer_pos, buffer_out,
                 last_byte_nl, last_byte_cr, last_byte_whitespace,
                 current_condition, out, base, match_vars, stats_vars>>

NextMatch == MatchOpen \/ MatchRead \/ MatchEof \/ MatchReturn

SpecMatch == InitMatch /\ [][NextMatch]_vars

\* the length of the longest line of src from position q on, a line counted
\* with its newline; cur is the length of the line that q is in so far
RECURSIVE LongestLine(_, _, _)
LongestLine(src, q, cur) ==
  IF q > Len(src) THEN cur
  ELSE IF src[q] = 10
    THEN LET rest == LongestLine(src, q + 1, 0) IN
         IF cur + 1 > rest THEN cur + 1 ELSE rest
  ELSE LongestLine(src, q + 1, cur + 1)

\* C21: binary mode of match.  state_binary becomes 1 exactly in a pass whose
\* buffer is full, max_columns bytes, and holds no newline; and at the end of
\* a run over one input state_binary is 1 if and only if some line of the
\* input, its newline included, is longer than max_columns: an input whose
\* every line fits is processed in line mode.
C21_BinaryMode ==
  /\ [][pc = "run_fd" /\ pc' = "run_fd" /\ state_binary = 0 =>
          (state_binary' = 1 <=>
             /\ buffer_pos + (offset' - offset) = max_columns
             /\ \A j \in 1..buffer_pos : buffer[j] # 10
             /\ \A q \in (offset + 1)..offset' : srcs[index][q] # 10)]_vars
  /\ [][state_binary = 1 => state_binary' = 1]_vars
  /\ [](Finished /\ SingleSource =>
          (state_binary = 1 <=> LongestLine(srcs[1], 1, 0) > max_columns))

\* the pattern param occurs in src at position q
OccursAt(param, src, q) ==
  /\ q + Len(param) - 1 <= Len(src)
  /\ SubSeq(src, q, q + Len(param) - 1) = param

\* C22: exit status of match.  At the end of a run over one input the exit
\* status is 0 if the pattern occurs in the input and 1 if it does not.  The
\* patterns hold no newline, so an occurrence always lies inside one line.
C22_ExitStatus ==
  Finished /\ SingleSource =>
    /\ status \in {0, 1}
    /\ status = 0 <=>
         \E q \in 1..Len(srcs[1]) : OccursAt(match_param, srcs[1], q)

\* the globals of match when run_fd() is entered for the first file
MatchStart ==
  [MatchState EXCEPT !.buffer = <<>>, !.buffer_pos = 0, !.state_binary = 0,
                     !.match_count = 0, !.line_match_count = 0]

\* run_fd() of match over src from offset off on when every read() returns
\* all the bytes that are left, as many as the buffer has room for
RECURSIVE match_run_whole(_, _, _)
match_run_whole(s, src, off) ==
  LET room == s.buffer_len - s.buffer_pos
      left == Len(src) - off
      len == IF left < room THEN left ELSE room
  IN
  IF len = 0 THEN match_tail(s)
  ELSE match_run_whole(match_pass(s, src, off, len), src, off + len)

\* C23: the count of match does not depend on the chunks.  At the end of a
\* run over one input match_count is what the run counts when every read()
\* fills the buffer as far as the input goes, however the input was split
\* into reads, in line mode and in binary mode.
C23_ChunkIndependence ==
  Finished /\ SingleSource =>
    match_count = match_run_whole(MatchStart, srcs[1], 0).match_count

\* ============================================================== textstats
\* The globals of textstats as one record the functions transform.
StatsState ==
  [buffer |-> buffer, buffer_pos |-> buffer_pos,
   ulen |-> ulen, umin |-> umin, umax |-> umax, u |-> u_acc,
   utf8_missing_continuation_count |-> utf8_missing_continuation_count,
   utf8_orphan_continuation_count |-> utf8_orphan_continuation_count,
   utf8_overlong_count |-> utf8_overlong_count,
   utf8_upper_control_count |-> utf8_upper_control_count,
   utf8_illegal_count |-> utf8_illegal_count,
   last_byte_cr |-> last_byte_cr,
   last_byte_whitespace |-> last_byte_whitespace,
   line_count |-> line_count, windows_line_count |-> windows_line_count,
   trailing_whitespace_count |-> trailing_whitespace_count,
   null_char_count |-> null_char_count, control_count |-> control_count,
   upper_control_count |-> upper_control_count,
   upper_printable_count |-> upper_printable_count,
   latin1_finnish_count |-> latin1_finnish_count]

\* u <<= 6 on an int of 32 bits, two's complement: the low 26 bits of x move
\* up, bit 25 becomes the sign
shl6(x) ==
  LET low == x % 67108864 IN
  IF low < 33554432 THEN low * 64
  ELSE (low - 33554432) * 64 - 2147483647 - 1

\* consume() of textstats, the sequence part of one round of the loop:
\* the byte ch moves ulen, umin, umax, u and the utf8 counters
stats_utf8(s, ch) ==
  LET m == IF s.ulen > 1 /\ (ch < 128 \/ ch >= 192)
             THEN [s EXCEPT !.utf8_missing_continuation_count = @ + 1]
             ELSE s
  IN
  IF ch < 128 THEN [m EXCEPT !.ulen = 1]
  ELSE IF ch < 192
    THEN IF m.ulen < 2
           THEN [m EXCEPT !.utf8_orphan_continuation_count = @ + 1]
           ELSE LET v == shl6(m.u) + (ch % 64)
                    d == [m EXCEPT !.u = v, !.ulen = @ - 1]
                IN
                IF d.ulen = 1
                  THEN [d EXCEPT
                          !.utf8_overlong_count =
                             IF v < d.umin THEN @ + 1 ELSE @,
                          !.utf8_upper_control_count =
                             IF v >= 128 /\ v < 160 THEN @ + 1 ELSE @]
                  ELSE d
  ELSE IF ch < 224
    THEN [m EXCEPT !.u = ch % 32, !.ulen = 2, !.umin = 128, !.umax = 2047]
  ELSE IF ch < 240
    THEN [m EXCEPT !.ulen = 3, !.umin = 2048, !.umax = 65535]
  ELSE IF ch < 245
    THEN [m EXCEPT !.ulen = 4, !.umin = 65536, !.umax = 1114111]
  ELSE [m EXCEPT !.utf8_illegal_count = @ + 1, !.ulen = 1]

\* consume() of textstats, the rest of one round: lines and byte classes
stats_classes(s, ch) ==
  LET nl == ch = 10 IN
  [s EXCEPT
     !.windows_line_count = IF nl /\ s.last_byte_cr THEN @ + 1 ELSE @,
     !.trailing_whitespace_count =
        IF nl /\ s.last_byte_whitespace THEN @ + 1 ELSE @,
     !.line_count = IF nl THEN @ + 1 ELSE @,
     !.last_byte_cr = (ch = 13),
     !.last_byte_whitespace = IF ch # 13 THEN ch = 9 \/ ch = 32 ELSE @,
     !.null_char_count = IF ch = 0 THEN @ + 1 ELSE @,
     !.control_count =
        IF ch > 0 /\ ch < 32 /\ ch # 13 /\ ch # 10 /\ ch # 9
          THEN @ + 1 ELSE @,
     !.upper_control_count = IF ch >= 128 /\ ch < 160 THEN @ + 1 ELSE @,
     !.upper_printable_count = IF ch >= 160 /\ ch < 256 THEN @ + 1 ELSE @,
     !.latin1_finnish_count =
        IF ch \in {196, 197, 214, 228, 229, 246} THEN @ + 1 ELSE @]

\* the for loop of consume() of textstats from index i on
RECURSIVE stats_loop(_, _)
stats_loop(s, i) ==
  IF i >= s.buffer_pos THEN s
  ELSE stats_loop(stats_classes(stats_utf8(s, s.buffer[i + 1]),
                                s.buffer[i + 1]), i + 1)

\* consume() of textstats: every byte of the buffer, then the buffer is empty
stats_consume(s) ==
  [stats_loop(s, 0) EXCEPT !.buffer = <<>>, !.buffer_pos = 0]

\* run_fd() of textstats, one round: read() returns len bytes of src from
\* offset off on, then consume(0)
stats_pass(s, src, off, len) ==
  stats_consume([s EXCEPT
                   !.buffer = SubSeq(s.buffer, 1, s.buffer_pos)
                                \o SubSeq(src, off + 1, off + len),
                   !.buffer_pos = s.buffer_pos + len])

\* run_fd() of textstats after the read loop
stats_tail(s) == IF s.buffer_pos # 0 THEN stats_consume(s) ELSE s

\* the inputs of textstats: '\n', the continuation bytes 0x80 and 0xAC, the
\* leads 0xC0 and 0xC2 of two bytes, 0xE0 and 0xE2 of three, 0xF0 of four
StatsAlpha == {10, 128, 172, 192, 194, 224, 226, 240}
StatsLists ==
  {<<f>> : f \in SeqsUpTo(StatsAlpha, MaxStatsLen)}
    \cup {<<f, g>> : f \in SeqsUpTo({128, 194, 226}, MaxPart),
                     g \in SeqsUpTo({128, 194, 226}, MaxPart)}

\* textstats after parse_options()
InitStats ==
  /\ srcs \in StatsLists
  /\ index = 0
  /\ offset = 0
  /\ buffer = <<>>
  /\ buffer_pos = 0
  /\ buffer_out = InitGlobals.buffer_out
  /\ last_byte_nl = InitGlobals.last_byte_nl
  /\ last_byte_cr = FALSE
  /\ last_byte_whitespace = FALSE
  /\ current_condition = InitGlobals.current_condition
  /\ out = InitGlobals.out
  /\ base = InitGlobals.base
  /\ reads = 0
  /\ pc = "run"
  /\ status = -1
  /\ MatchGlobals
  /\ StatsGlobals

SetStats(s) ==
  /\ buffer' = s.buffer
  /\ buffer_pos' = s.buffer_pos
  /\ ulen' = s.ulen
  /\ umin' = s.umin
  /\ umax' = s.umax
  /\ u_acc' = s.u
  /\ utf8_missing_continuation_count' = s.utf8_missing_continuation_count
  /\ utf8_orphan_continuation_count' = s.utf8_orphan_continuation_count
  /\ utf8_overlong_count' = s.utf8_overlong_count
  /\ utf8_upper_control_count' = s.utf8_upper_control_count
  /\ utf8_illegal_count' = s.utf8_illegal_count
  /\ last_byte_cr' = s.last_byte_cr
  /\ last_byte_whitespace' = s.last_byte_whitespace
  /\ line_count' = s.line_count
  /\ windows_line_count' = s.windows_line_count
  /\ trailing_whitespace_count' = s.trailing_whitespace_count
  /\ null_char_count' = s.null_char_count
  /\ control_count' = s.control_count
  /\ upper_control_count' = s.upper_control_count
  /\ upper_printable_count' = s.upper_printable_count
  /\ latin1_finnish_count' = s.latin1_finnish_count

\* what textstats never touches
StatsFrame ==
  UNCHANGED <<srcs, buffer_out, last_byte_nl, current_condition, out, base,
              reads, match_vars>>

\* run() of textstats: the next file is opened and run_fd() is entered
StatsOpen ==
  /\ pc = "run"
  /\ index < Len(srcs)
  /\ index' = index + 1
  /\ offset' = 0
  /\ pc' = "run_fd"
  /\ UNCHANGED <<buffer, buffer_pos, last_byte_cr, last_byte_whitespace,
                 status, stats_vars>>
  /\ StatsFrame

\* run_fd() of textstats: read() returns len > 0 bytes, then consume(0)
StatsRead ==
  /\ pc = "run_fd"
  /\ \E len \in 1..(Len(srcs[index]) - offset) :
       /\ len <= buffer_len - buffer_pos
       /\ offset' = offset + len
       /\ SetStats(stats_pass(StatsState, srcs[index], offset, len))
  /\ UNCHANGED <<index, pc, status>>
  /\ StatsFrame

\* run_fd() of textstats: read() returns 0 and run_fd returns
StatsEof ==
  /\ pc = "run_fd"
  /\ offset = Len(srcs[index])
  /\ SetStats(stats_tail(StatsState))
  /\ pc' = "run"
  /\ UNCHANGED <<index, offset, status>>
  /\ StatsFrame

\* main() of textstats prints the counters and returns 0
StatsReturn ==
  /\ pc = "run"
  /\ index = Len(srcs)
  /\ pc' = "exit"
  /\ status' = 0
  /\ UNCHANGED <<index, offset, buffer, buffer_pos, last_byte_cr,
                 last_byte_whitespace, stats_vars>>
  /\ StatsFrame

NextStats == StatsOpen \/ StatsRead \/ StatsEof \/ StatsReturn

SpecStats == InitStats /\ [][NextStats]_vars

\* the positions of src where a well-formed sequence of two, three or four
\* bytes starts whose code point is below the minimum of its length
OverlongAt(src) ==
  {q \in 1..Len(src) :
     /\ WellFormedAt(src, q)
     /\ CodePoint(src, q) < MinCodePoint(UnitLen(src[q]))}

\* C24: the overlong counter of textstats.  At the end of a run over one
\* input, however it was split into reads, utf8_overlong_count is the number
\* of well-formed multi-byte sequences of the input whose own code point is
\* below the minimum of their length, 0x80, 0x800 or 0x10000: a sequence is
\* counted on its own bytes, whatever was scanned before it.
C24_OverlongCount ==
  Finished /\ SingleSource =>
    utf8_overlong_count = Cardinality(OverlongAt(srcs[1]))

====
